---- MODULE Spec2Model ----
(***************************************************************************)
(* State-machine model of na-winit-wgpu/src/lib.rs: the App struct (the    *)
(* adapter, surface_state and render_state options), its methods, and the  *)
(* event-loop closure of run() that dispatches platform events to them.    *)
(*                                                                         *)
(* Handles returned by winit/wgpu (windows, surfaces, adapters, devices,   *)
(* queues, pipelines) are modelled by the stamp of the resume() call that  *)
(* created them: two handles of one kind are the same object iff their     *)
(* stamps are equal.  Calls that the source unwraps/expects may fail, and  *)
(* then the process panics.                                                *)
(***************************************************************************)
EXTENDS Integers, Sequences, FiniteSets, TLC

\* ---------------------------------------------------------------- bounds
\* Number of Resumed events the event loop delivers in one run.
MaxResumes == 2
\* Longest list of formats a surface advertises.
MaxFormats == 2

\* ------------------------------------------------------ program constants
\* desired_maximum_frame_latency of the SurfaceConfiguration.
MaxFrameLatency == 2
\* rpass.draw(0..3, 0..1)
DrawVertices == 3
DrawInstances == 1

\* ------------------------------------------------------------ value sets
\* wgpu::TextureFormat values a surface may advertise.
Formats == {"Bgra8Unorm", "Bgra8UnormSrgb", "Rgba8UnormSrgb"}

\* TextureFormat::is_srgb
is_srgb(f) == f \in {"Bgra8UnormSrgb", "Rgba8UnormSrgb"}

\* Window sizes the windowing system may report (PhysicalSize<u32>).
Sizes == {<<450, 400>>, <<800, 600>>}

\* Sequences over S without repetition, of length 1..n.
RECURSIVE ListsUpTo(_, _)
ListsUpTo(S, n) ==
    IF n = 0 THEN {}
    ELSE LET shorter == ListsUpTo(S, n - 1)
         IN {<<x>> : x \in S} \cup shorter
            \cup {Append(l, x) : l \in {m \in shorter : Len(m) = n - 1},
                                 x \in S}

NoRepeat(l) == \A i, j \in 1..Len(l) : i # j => l[i] # l[j]

\* SurfaceCapabilities.formats of a surface the adapter can present to.
FormatLists == {l \in ListsUpTo(Formats, MaxFormats) : NoRepeat(l)}

\* Option<T>: None is the empty tuple, Some(x) the one-element tuple.
None == <<>>
Some(x) == <<x>>
is_none(o) == o = None
is_some(o) == o # None
unwrap(o) == o[1]

VARIABLES
    adapter,          \* App.adapter: Option<Adapter>
    surface_state,    \* App.surface_state: Option<SurfaceState>
    render_state,     \* App.render_state: Option<RenderState>
    inner_size,       \* window.inner_size() of the held window
    surface_formats,  \* formats the held surface advertises
    surface_config,   \* SurfaceConfiguration last applied to the held surface
    redraw_requested, \* a request_redraw() on the held window is pending
    last_frame,       \* the frame last submitted and presented
    status,           \* "running", "exited" (elwt.exit()) or "panicked"
    panic,            \* the message of the failed expect()/unwrap()
    ops,              \* winit/wgpu calls made by the handler that ran last
    handles,          \* stamp of the latest resume() call
    rc_builds,        \* RenderStates built since the last Suspended event
    lifecycle,        \* last lifecycle event: "none", "resumed", "suspended"
    ev                \* the event handled last

vars == <<adapter, surface_state, render_state, inner_size, surface_formats,
          surface_config, redraw_requested, last_frame, status, panic, ops,
          handles, rc_builds, lifecycle, ev>>

\* The state as one record, so that the methods of App compose.
Cur ==
    [adapter |-> adapter, surface_state |-> surface_state,
     render_state |-> render_state, inner_size |-> inner_size,
     surface_formats |-> surface_formats, surface_config |-> surface_config,
     redraw_requested |-> redraw_requested, last_frame |-> last_frame,
     status |-> status, panic |-> panic, ops |-> ops, handles |-> handles,
     rc_builds |-> rc_builds, lifecycle |-> lifecycle]

Set(n) ==
    /\ adapter' = n.adapter
    /\ surface_state' = n.surface_state
    /\ render_state' = n.render_state
    /\ inner_size' = n.inner_size
    /\ surface_formats' = n.surface_formats
    /\ surface_config' = n.surface_config
    /\ redraw_requested' = n.redraw_requested
    /\ last_frame' = n.last_frame
    /\ status' = n.status
    /\ panic' = n.panic
    /\ ops' = n.ops
    /\ handles' = n.handles
    /\ rc_builds' = n.rc_builds
    /\ lifecycle' = n.lifecycle

Running(s) == s.status = "running"

\* A call into winit/wgpu, recorded in call order.
Call(s, name) == [s EXCEPT !.ops = Append(@, name)]

\* A failed unwrap()/expect(): the closure unwinds and the process ends.
Panic(s, msg) == [s EXCEPT !.status = "panicked", !.panic = msg]

\* Sequential composition: run f on every outcome that is still running.
Then(S, f(_)) == UNION {IF Running(s) THEN f(s) ELSE {s} : s \in S}

\* App::new
Init ==
    /\ adapter = None
    /\ surface_state = None
    /\ render_state = None
    /\ inner_size = <<0, 0>>
    /\ surface_formats = <<>>
    /\ surface_config = None
    /\ redraw_requested = FALSE
    /\ last_frame = None
    /\ status = "running"
    /\ panic = ""
    /\ ops = <<>>
    /\ handles = 0
    /\ rc_builds = 0
    /\ lifecycle = "none"
    /\ ev = [type |-> "none", size |-> <<0, 0>>, old |-> <<0, 0>>]

\* ------------------------------------------------------- methods of App

\* App::create_surface: a new window and a new surface for it replace
\* whatever surface_state held; the old window and surface are dropped.
create_surface(s) ==
    LET w == Call(s, "Window::new")
        c == Call(w, "create_surface")
        id == s.handles + 1
    IN  {Panic(w, "Window::new"), Panic(c, "Failed to create surface")}
        \cup {[c EXCEPT !.surface_state = Some([window |-> id, surface |-> id]),
                        !.handles = id,
                        !.inner_size = sz,
                        !.surface_formats = fl,
                        !.surface_config = None,
                        !.redraw_requested = FALSE]
              : sz \in Sizes, fl \in FormatLists}

\* Surface::get_capabilities(adapter).formats: the advertised list, or an
\* empty list when the adapter cannot present to this surface, which can
\* only be the case for an adapter requested for another surface.
get_capabilities(s) ==
    IF unwrap(s.adapter).compatible_surface = unwrap(s.surface_state).surface
    THEN {s.surface_formats}
    ELSE {s.surface_formats, <<>>}

\* Variant: the last sRGB format of the list is taken.
find_srgb_last(formats) ==
    LET hits == {i \in 1..Len(formats) : is_srgb(formats[i])}
    IN  IF hits = {} THEN None
        ELSE Some(formats[CHOOSE i \in hits : \A j \in hits : i >= j])

\* formats.iter().copied().find(|f| f.is_srgb())
find_srgb(formats) ==
    LET hits == {i \in 1..Len(formats) : is_srgb(formats[i])}
    IN  IF hits = {} THEN None
        ELSE Some(formats[CHOOSE i \in hits : \A j \in hits : i <= j])

\* App::init_render_state: request_device, then shader, layout, pipeline.
init_render_state(s, target_format) ==
    LET d == Call(s, "request_device")
        b == [d EXCEPT !.ops = @ \o <<"create_shader_module",
                                      "create_pipeline_layout",
                                      "create_render_pipeline">>]
        id == s.handles
    IN  {Panic(d, "Failed to create device"),
         [b EXCEPT !.render_state =
                       Some([device |-> id, queue |-> id,
                             render_pipeline |-> id,
                             target_format |-> target_format,
                             adapter |-> unwrap(s.adapter).id]),
                   !.rc_builds = @ + 1]}

\* The render_state.is_none() branch of ensure_render_state_for_surface.
build_render_state(s) ==
    UNION {LET g == Call(s, "get_capabilities")
           IN  IF formats = <<>>
               THEN {Panic(g, "index out of bounds")}
               ELSE LET found == find_srgb(formats)
                        swapchain_format ==
                            IF is_some(found) THEN unwrap(found)
                            ELSE formats[1]
                    IN  init_render_state(g, swapchain_format)
           : formats \in get_capabilities(s)}

\* Variant: a failed adapter request is tried a second time.
request_adapter_retrying(s) ==
    LET r == Call(s, "request_adapter")
        r2 == Call(r, "request_adapter")
        found(x) == [x EXCEPT !.adapter =
                        Some([id |-> s.handles,
                              compatible_surface |->
                                  unwrap(s.surface_state).surface])]
    IN  {found(r), found(r2),
         Panic(r2, "Failed to find an appropriate adapter")}

\* The adapter.is_none() branch of ensure_render_state_for_surface.
request_adapter(s) ==
    LET r == Call(s, "request_adapter")
    IN  {Panic(r, "Failed to find an appropriate adapter"),
         [r EXCEPT !.adapter =
                       Some([id |-> s.handles,
                             compatible_surface |->
                                 unwrap(s.surface_state).surface])]}

ensure_adapter(s) ==
    IF is_none(s.adapter) THEN request_adapter(s) ELSE {s}

\* Variant: the render_state.is_none() check left out.
ensure_render_state_unchecked(s) == build_render_state(s)

ensure_render_state(s) ==
    IF is_none(s.render_state) THEN build_render_state(s) ELSE {s}

\* App::ensure_render_state_for_surface
ensure_render_state_for_surface(s) ==
    IF is_some(s.surface_state)
    THEN Then(ensure_adapter(s), ensure_render_state)
    ELSE {s}

\* Variant: the present mode and alpha mode of the commented-out lines
\* 206 and 210.
SwapchainConfig_mailbox(s) ==
    [format |-> unwrap(s.render_state).target_format,
     width |-> s.inner_size[1],
     height |-> s.inner_size[2],
     desired_maximum_frame_latency |-> MaxFrameLatency,
     present_mode |-> "Mailbox",
     alpha_mode |-> "Opaque",
     device |-> unwrap(s.render_state).device,
     surface |-> unwrap(s.surface_state).surface]

\* Variant: the format is chosen again from the surface held at configure
\* time instead of being read from render_state.target_format.
SwapchainConfig_recomputed(s) ==
    [format |-> IF is_some(find_srgb(s.surface_formats))
                THEN unwrap(find_srgb(s.surface_formats))
                ELSE s.surface_formats[1],
     width |-> s.inner_size[1],
     height |-> s.inner_size[2],
     desired_maximum_frame_latency |-> MaxFrameLatency,
     present_mode |-> "Fifo",
     alpha_mode |-> "Inherit",
     device |-> unwrap(s.render_state).device,
     surface |-> unwrap(s.surface_state).surface]

\* The SurfaceConfiguration built by configure_surface_swapchain.
SwapchainConfig(s) ==
    [format |-> unwrap(s.render_state).target_format,
     width |-> s.inner_size[1],
     height |-> s.inner_size[2],
     desired_maximum_frame_latency |-> MaxFrameLatency,
     present_mode |-> "Fifo",
     alpha_mode |-> "Inherit",
     device |-> unwrap(s.render_state).device,
     surface |-> unwrap(s.surface_state).surface]

\* App::configure_surface_swapchain
configure_surface_swapchain(s) ==
    IF is_some(s.render_state) /\ is_some(s.surface_state)
    THEN {[Call(s, "configure") EXCEPT
               !.surface_config = Some(SwapchainConfig(s))]}
    ELSE {s}

\* App::queue_redraw
queue_redraw(s) ==
    IF is_some(s.surface_state)
    THEN {[Call(s, "request_redraw") EXCEPT !.redraw_requested = TRUE]}
    ELSE {s}

\* Variant: the swapchain is configured before the render state is ensured.
resume_configure_first(s) ==
    Then(Then(Then(create_surface(s), configure_surface_swapchain),
              ensure_render_state_for_surface),
         queue_redraw)

\* Variant: the new surface is not configured.
resume_skip_configure(s) ==
    Then(Then(create_surface(s), ensure_render_state_for_surface),
         queue_redraw)

\* Variant: resume() ends without queue_redraw.
resume_no_redraw(s) ==
    Then(Then(create_surface(s), ensure_render_state_for_surface),
         configure_surface_swapchain)

\* App::resume
resume(s) ==
    Then(Then(Then(create_surface(s), ensure_render_state_for_surface),
              configure_surface_swapchain),
         queue_redraw)

\* The frame recorded by render(): one render pass that clears to GREEN
\* and draws vertices 0..3, instances 0..1 with the pipeline.
Frame(s) ==
    [clear |-> "GREEN",
     vertices |-> DrawVertices,
     instances |-> DrawInstances,
     pipeline |-> unwrap(s.render_state).render_pipeline,
     queue |-> unwrap(s.render_state).queue,
     surface |-> unwrap(s.surface_state).surface,
     format |-> unwrap(s.surface_config).format,
     width |-> unwrap(s.surface_config).width,
     height |-> unwrap(s.surface_config).height]

\* Variant: a failed acquire is tried a second time.
get_current_texture_retrying(s) ==
    LET a == Call(s, "get_current_texture")
        a2 == Call(a, "get_current_texture")
    IN  {Panic(a2, "Failed to acquire next swap chain texture")}
        \cup (IF is_some(s.surface_config) THEN {a, a2} ELSE {})

\* Surface::get_current_texture().expect(..): fails on a surface that was
\* never configured, and may fail (Timeout, Outdated, Lost) on any other.
get_current_texture(s) ==
    LET a == Call(s, "get_current_texture")
    IN  {Panic(a, "Failed to acquire next swap chain texture")}
        \cup (IF is_some(s.surface_config) THEN {a} ELSE {})

\* Variant: line 270 enabled, every frame requests the next one.
draw_and_present_animated(s) ==
    {[s EXCEPT !.ops = @ \o <<"create_view", "create_command_encoder",
                              "begin_render_pass", "set_pipeline", "draw",
                              "submit", "present", "request_redraw">>,
               !.last_frame = Some(Frame(s)),
               !.redraw_requested = TRUE]}

\* The body of render() after the texture was acquired.
draw_and_present(s) ==
    {[s EXCEPT !.ops = @ \o <<"create_view", "create_command_encoder",
                              "begin_render_pass", "set_pipeline", "draw",
                              "submit", "present">>,
               !.last_frame = Some(Frame(s))]}

\* Variant: the texture is acquired before render_state is looked at.
draw_if_render_state(s) ==
    IF is_some(s.render_state) THEN draw_and_present(s) ELSE {s}

render_acquire_first(s) ==
    IF is_some(s.surface_state)
    THEN Then(get_current_texture(s), draw_if_render_state)
    ELSE {s}

\* App::render
render(s) ==
    IF is_some(s.surface_state) /\ is_some(s.render_state)
    THEN Then(get_current_texture(s), draw_and_present)
    ELSE {s}

\* ------------------------------------------- the closure of run(): events

\* The state a handler starts from: the call log is per handler.
Begin == [Cur EXCEPT !.ops = <<>>]

Event(type) == [type |-> type, size |-> <<0, 0>>, old |-> <<0, 0>>]

\* Event::Resumed
Resumed ==
    /\ status = "running"
    /\ handles < MaxResumes
    /\ \E n \in resume([Begin EXCEPT !.lifecycle = "resumed"]) : Set(n)
    /\ ev' = Event("Resumed")

\* Variant: the surface state is dropped together with the render state.
suspend_dropping_surface(s) ==
    {[s EXCEPT !.render_state = None, !.rc_builds = 0,
               !.surface_state = None, !.surface_config = None,
               !.redraw_requested = FALSE]}

\* The effect of the Event::Suspended arm on the App.
suspend(s) == {[s EXCEPT !.render_state = None, !.rc_builds = 0]}

\* Event::Suspended
Suspended ==
    /\ status = "running"
    /\ \E n \in suspend([Begin EXCEPT !.lifecycle = "suspended"]) : Set(n)
    /\ ev' = Event("Suspended")

\* Variant: a resize also makes sure a render state exists.
resized_rebuilding(s) ==
    Then(Then(ensure_render_state_for_surface(s), configure_surface_swapchain),
         queue_redraw)

\* Variant: a resize only requests a redraw.
resized_redraw_only(s) == queue_redraw(s)

\* The WindowEvent::Resized arm: the size carried by the event is ignored.
resized(s) == Then(configure_surface_swapchain(s), queue_redraw)

\* WindowEvent::Resized(size): the held window, if any, has the new size;
\* old is the size it had before.
Resized ==
    /\ status = "running"
    /\ \E sz \in Sizes :
          /\ \E n \in resized([Begin EXCEPT !.inner_size =
                                   IF is_some(surface_state) THEN sz ELSE @]) :
                 Set(n)
          /\ ev' = [type |-> "Resized", size |-> sz, old |-> inner_size]

\* WindowEvent::RedrawRequested: delivering it consumes the pending request.
RedrawRequested ==
    /\ status = "running"
    /\ \E n \in render([Begin EXCEPT !.redraw_requested = FALSE]) : Set(n)
    /\ ev' = Event("RedrawRequested")

\* Variant: the close request is logged and the loop keeps running.
exit_ignored(s) == {s}

\* The WindowEvent::CloseRequested arm: elwt.exit()
exit(s) == {[Call(s, "exit") EXCEPT !.status = "exited"]}

\* WindowEvent::CloseRequested
CloseRequested ==
    /\ status = "running"
    /\ \E n \in exit(Begin) : Set(n)
    /\ ev' = Event("CloseRequested")

\* Every other event (CursorMoved, AboutToWait, DeviceEvent, ...): logged
\* at most.
OtherEvent ==
    /\ status = "running"
    /\ Set(Begin)
    /\ ev' = Event("Other")

Next ==
    \/ Resumed
    \/ Suspended
    \/ Resized
    \/ RedrawRequested
    \/ CloseRequested
    \/ OtherEvent

Spec == Init /\ [][Next]_vars

\* The windowing system delivers a RedrawRequested for a pending
\* request_redraw().
RedrawDelivery == redraw_requested /\ RedrawRequested

\* The event loop with that delivery guaranteed.
FairSpec == Spec /\ WF_vars(RedrawDelivery)

\* ------------------------------------------------------------- vocabulary

\* Ready of the orchestrator: both options are Some.
Ready == is_some(surface_state) /\ is_some(render_state)

Count(seq, x) == Cardinality({i \in 1..Len(seq) : seq[i] = x})

\* The fields of App.
app == <<adapter, surface_state, render_state>>

\* The calls resume() makes when every one of them succeeds, given whether
\* an adapter and a RenderState were held when it started.
ResumeCalls(had_adapter, had_render_state) ==
    <<"Window::new", "create_surface">>
    \o (IF had_adapter THEN <<>> ELSE <<"request_adapter">>)
    \o (IF had_render_state THEN <<>>
        ELSE <<"get_capabilities", "request_device", "create_shader_module",
               "create_pipeline_layout", "create_render_pipeline">>)
    \o <<"configure", "request_redraw">>

\* The calls render() makes when the texture is acquired.
RenderCalls ==
    <<"get_current_texture", "create_view", "create_command_encoder",
      "begin_render_pass", "set_pipeline", "draw", "submit", "present">>

\* ------------------------------------------------------------------ claims

\* C1: after a Suspend event is handled, from any reachable state, both
\* surface_state and render_state are absent.
C1_SuspendDropsBoth ==
    ev.type = "Suspended" => is_none(surface_state) /\ is_none(render_state)

\* C2: a Resume that follows a Suspend rebuilds the SurfaceBinding and the
\* RenderContext from scratch: every handle held after it (window, surface,
\* adapter, device, queue, pipeline) was created by that Resume, none
\* existed before the Suspend.
C2_ResumeAfterSuspendReusesNothing ==
    [][(lifecycle = "suspended" /\ ev'.type = "Resumed" /\ status' = "running")
       => /\ is_some(surface_state') /\ is_some(render_state')
          /\ is_some(adapter')
          /\ unwrap(surface_state').window = handles'
          /\ unwrap(surface_state').surface = handles'
          /\ unwrap(adapter').id = handles'
          /\ unwrap(render_state').adapter = handles'
          /\ unwrap(render_state').device = handles'
          /\ unwrap(render_state').queue = handles'
          /\ unwrap(render_state').render_pipeline = handles']_vars

\* C3: between any two RenderContext builds there is a Suspend event (at
\* most one build since the last Suspend), and a Resume handled while a
\* RenderContext exists builds none and keeps the one held.
C3_OneBuildPerSuspend ==
    [][/\ rc_builds' <= 1
       /\ (ev'.type = "Resumed" /\ is_some(render_state))
          => /\ Count(ops', "request_device") = 0
             /\ render_state' = render_state
             /\ rc_builds' = rc_builds]_vars

C3_Witness ==
    /\ ev.type = "Resumed" /\ status = "running"
    /\ Count(ops, "request_device") = 0
    /\ is_some(render_state) /\ rc_builds = 1
    /\ unwrap(render_state).device < unwrap(surface_state).surface

\* C4: a RedrawRequested handled while not Ready (surface_state or
\* render_state absent) submits no frame, raises no error, makes no call
\* and leaves the App and the surface as they were.
C4_RedrawNotReadyIsDropped ==
    [][(ev'.type = "RedrawRequested" /\ ~Ready)
       => /\ ops' = <<>>
          /\ status' = "running" /\ panic' = ""
          /\ app' = app
          /\ last_frame' = last_frame
          /\ surface_config' = surface_config]_vars

C4_Witness ==
    /\ ev.type = "RedrawRequested" /\ ~Ready
    /\ is_some(surface_state) /\ lifecycle = "suspended"

\* C5: a RedrawRequested submits at most one frame; handled in Ready with
\* the texture acquired it submits exactly one, by the calls acquire,
\* record (clear, one draw of 3 vertices and 1 instance), submit, present
\* in that order, and it requests no further redraw.
C5_RedrawSubmitsAtMostOneFrame ==
    [][ev'.type = "RedrawRequested"
       => /\ Count(ops', "submit") <= 1
          /\ Count(ops', "request_redraw") = 0
          /\ ~redraw_requested'
          /\ (Ready /\ status' = "running")
             => /\ ops' = RenderCalls
                /\ is_some(last_frame')
                /\ unwrap(last_frame').vertices = 3
                /\ unwrap(last_frame').instances = 1
                /\ unwrap(last_frame').clear = "GREEN"
                /\ unwrap(last_frame').queue = unwrap(render_state).queue
                /\ unwrap(last_frame').surface
                       = unwrap(surface_state).surface]_vars

C5_Witness ==
    /\ ev.type = "RedrawRequested" /\ status = "running"
    /\ Count(ops, "submit") = 1 /\ Count(ops, "present") = 1

\* C6: within one RenderContext epoch the chosen format never changes, and
\* every swapchain configuration, on Resume or Resize and whichever surface
\* is bound, applies the format of the RenderContext held.
C6_ConfigureUsesChosenFormat ==
    [][/\ (is_some(render_state) /\ is_some(render_state')
           /\ unwrap(render_state').device = unwrap(render_state).device)
          => unwrap(render_state').target_format
                 = unwrap(render_state).target_format
       /\ Count(ops', "configure") > 0
          => /\ is_some(surface_config') /\ is_some(render_state')
             /\ unwrap(surface_config').format
                    = unwrap(render_state').target_format
             /\ unwrap(surface_config').device
                    = unwrap(render_state').device]_vars

\* A configure within an epoch on a later surface whose own preferred
\* format is another one.
C6_Witness ==
    /\ Count(ops, "configure") > 0 /\ Ready /\ is_some(surface_config)
    /\ unwrap(render_state).device < unwrap(surface_state).surface
    /\ unwrap(surface_config).format = unwrap(render_state).target_format
    /\ ~(unwrap(render_state).target_format
             \in {surface_formats[i] : i \in 1..Len(surface_formats)})

\* C7: after a Resume that completes, from any state, the state is Ready
\* and the calls were, in order: surface creation, RenderContext creation
\* if none was held, swapchain configuration, one redraw request.
C7_ResumeReachesReadyInOrder ==
    [][(ev'.type = "Resumed" /\ status' = "running")
       => /\ Ready'
          /\ ops' = ResumeCalls(is_some(adapter), is_some(render_state))
          /\ Count(ops', "request_redraw") = 1
          /\ redraw_requested'
          /\ is_some(surface_config')
          /\ unwrap(surface_config').surface
                 = unwrap(surface_state').surface]_vars

C7_Witness ==
    /\ ev.type = "Resumed" /\ status = "running" /\ Ready
    /\ Count(ops, "request_device") = 1 /\ Count(ops, "request_adapter") = 0
    /\ Count(ops, "configure") = 1

\* C8: a Resume handled while a SurfaceBinding is held leaves that binding
\* in place and creates no window and no surface.
C8_ResumeKeepsSurfaceBinding ==
    [][(ev'.type = "Resumed" /\ is_some(surface_state))
       => /\ surface_state' = surface_state
          /\ Count(ops', "Window::new") = 0
          /\ Count(ops', "create_surface") = 0]_vars

\* C9: a Resize handled while not Ready is a no-op: no configure, no
\* redraw request, App unchanged.
C9_ResizeNotReadyIsNoOp ==
    [][(ev'.type = "Resized" /\ ~Ready)
       => /\ ops' = <<>>
          /\ redraw_requested' = redraw_requested
          /\ surface_config' = surface_config
          /\ app' = app]_vars

\* C10: a Resize handled in Ready configures the swapchain to the window's
\* new width and height and then requests one redraw, leaving
\* surface_state and render_state unchanged; a RedrawRequested that follows
\* and acquires its texture submits exactly one frame, of that size.
C10_ResizeReconfiguresToNewSize ==
    [][/\ (ev'.type = "Resized" /\ Ready)
          => /\ ops' = <<"configure", "request_redraw">>
             /\ unwrap(surface_config').width = ev'.size[1]
             /\ unwrap(surface_config').height = ev'.size[2]
             /\ redraw_requested'
             /\ app' = app
             /\ status' = "running"
       /\ (ev.type = "Resized" /\ Ready
           /\ ev'.type = "RedrawRequested" /\ status' = "running")
          => /\ Count(ops', "submit") = 1
             /\ unwrap(last_frame').width = ev.size[1]
             /\ unwrap(last_frame').height = ev.size[2]]_vars

\* Resume, Resize(800,600), RedrawRequested: one frame at 800x600.
C10_Witness ==
    /\ ev.type = "RedrawRequested" /\ status = "running"
    /\ Count(ops, "submit") = 1
    /\ unwrap(last_frame).width = 800 /\ unwrap(last_frame).height = 600
    /\ unwrap(surface_config).width = 800
    /\ unwrap(surface_config).height = 600

\* C11: only the handling of Resume takes the orchestrator into Ready, and
\* only the handling of Resume ends the state left by a Suspend (no
\* RenderContext): Resize, RedrawRequested and unrecognised events create
\* no SurfaceBinding, no RenderContext and no adapter.
C11_OnlyResumeCreates ==
    [][/\ (~Ready /\ Ready') => ev'.type = "Resumed"
       /\ (is_none(render_state) /\ is_some(render_state'))
          => ev'.type = "Resumed"
       /\ (lifecycle = "suspended" /\ lifecycle' # "suspended")
          => ev'.type = "Resumed"
       /\ ev'.type \in {"Resized", "RedrawRequested", "Other"}
          => /\ app' = app
             /\ handles' = handles
             /\ Count(ops', "Window::new") = 0
             /\ Count(ops', "create_surface") = 0
             /\ Count(ops', "request_adapter") = 0
             /\ Count(ops', "request_device") = 0]_vars

\* A Resize handled after a Suspend: the surface is held, no RenderContext.
C11_Witness ==
    /\ ev.type = "Resized" /\ status = "running"
    /\ lifecycle = "suspended"
    /\ is_some(surface_state) /\ is_none(render_state)
    /\ Count(ops, "request_redraw") = 1

\* C12: when the adapter request of a Resume fails, the process panics
\* with that failure after a single request; no RenderContext is built, no
\* swapchain configured, no redraw requested, and the state is not Ready.
C12_AdapterFailureAborts ==
    Count(ops, "request_adapter") > 0 /\ is_none(adapter)
    => /\ status = "panicked"
       /\ panic = "Failed to find an appropriate adapter"
       /\ ops = <<"Window::new", "create_surface", "request_adapter">>
       /\ is_none(render_state) /\ ~Ready
       /\ is_none(surface_config)
       /\ ~redraw_requested
       /\ rc_builds = 0

C12_Witness ==
    /\ panic = "Failed to find an appropriate adapter"
    /\ status = "panicked" /\ ev.type = "Resumed"
    /\ is_some(surface_state)

C16_AcquireFailureIsFatal ==
    [][/\ (ev'.type = "RedrawRequested" /\ status' # "running")
          => /\ Ready
             /\ status' = "panicked"
             /\ panic' = "Failed to acquire next swap chain texture"
             /\ ops' = <<"get_current_texture">>
             /\ last_frame' = last_frame
             /\ surface_config' = surface_config
             /\ app' = app
       /\ status = "panicked" => UNCHANGED vars]_vars

C16_Witness ==
    /\ ev.type = "RedrawRequested" /\ status = "panicked"
    /\ panic = "Failed to acquire next swap chain texture"
    /\ is_some(surface_config)

\* Some RenderState was built by the step.
Built == rc_builds' > rc_builds

\* The held surface is configured with the held RenderState's device and
\* format.
Configured ==
    /\ is_some(surface_config)
    /\ unwrap(surface_config).surface = unwrap(surface_state).surface
    /\ unwrap(surface_config).device = unwrap(render_state).device
    /\ unwrap(surface_config).format = unwrap(render_state).target_format

\* C15: the format of a RenderContext that is built is the first sRGB
\* format of the list the surface advertises, or the first format of the
\* list when none is sRGB; as long as that RenderContext is held the
\* format stays, whatever surface is bound and whatever is configured.
C15_FormatIsFirstSrgbOrFirst ==
    [][/\ Built
          => LET l == surface_formats'
                 f == unwrap(render_state').target_format
                 srgb == {i \in 1..Len(l) : is_srgb(l[i])}
             IN  /\ \E i \in 1..Len(l) : l[i] = f
                 /\ srgb # {}
                    => \E i \in srgb : /\ l[i] = f
                                       /\ \A j \in 1..(i - 1) : ~is_srgb(l[j])
                 /\ srgb = {} => f = l[1]
       /\ (~Built /\ is_some(render_state) /\ ev'.type # "Suspended")
          => render_state' = render_state]_vars

\* A RenderContext built for a surface whose first format is not sRGB and
\* whose second is.
C15_Witness ==
    /\ ev.type = "Resumed" /\ status = "running"
    /\ Count(ops, "request_device") = 1
    /\ Len(surface_formats) = 2
    /\ ~is_srgb(surface_formats[1])
    /\ unwrap(render_state).target_format = surface_formats[2]

\* C17: every RenderContext is built from an adapter that was requested as
\* compatible with the surface held when it is built.
C17_AdapterCompatibleWithHeldSurface ==
    [][Built
       => /\ unwrap(render_state').adapter = unwrap(adapter').id
          /\ unwrap(adapter').compatible_surface
                 = unwrap(surface_state').surface]_vars

\* C19: whenever a surface and a RenderContext are both held, the held
\* surface is configured with the held RenderContext's device and format;
\* a texture is only ever acquired from a surface so configured.
C19_ReadyIsConfigured ==
    [][/\ Ready' => Configured'
       /\ Count(ops', "get_current_texture") > 0
          => Ready /\ Configured]_vars

\* A frame from a surface created after the RenderContext it is drawn with.
C19_Witness ==
    /\ ev.type = "RedrawRequested" /\ Count(ops, "submit") = 1
    /\ Ready /\ Configured
    /\ unwrap(render_state).device < unwrap(surface_state).surface
    /\ unwrap(last_frame).surface = unwrap(surface_state).surface

\* C20: a held RenderContext implies a held SurfaceBinding and a held
\* adapter; a SurfaceBinding or adapter that is held is never absent
\* again, Suspend included.
C20_SurfaceAndAdapterStay ==
    [][/\ is_some(render_state')
          => is_some(surface_state') /\ is_some(adapter')
       /\ is_some(surface_state) => is_some(surface_state')
       /\ is_some(adapter) => is_some(adapter')]_vars

C20_Witness ==
    /\ ev.type = "Suspended" /\ ops = <<>>
    /\ is_some(surface_state) /\ is_some(adapter)
    /\ is_none(render_state) /\ is_some(surface_config)

\* The SurfaceConfiguration fields of an applied configuration.
ConfigFields(c) ==
    <<c.format, c.width, c.height, c.present_mode, c.alpha_mode,
      c.desired_maximum_frame_latency>>

\* C14: when two handlers in a row configure the swapchain with the window
\* size and the RenderContext unchanged between them, the second applies
\* the same SwapchainConfig as the first (format, width, height, FIFO,
\* inherit alpha, frame latency 2) and does not fail.
C14_ConfigureIsIdempotent ==
    [][(/\ Count(ops, "configure") > 0 /\ Count(ops', "configure") > 0
        /\ inner_size' = inner_size /\ render_state' = render_state)
       => /\ status' = "running"
          /\ ConfigFields(unwrap(surface_config'))
                 = ConfigFields(unwrap(surface_config))
          /\ ConfigFields(unwrap(surface_config'))
                 = <<unwrap(render_state).target_format, inner_size[1],
                     inner_size[2], "Fifo", "Inherit", 2>>
          /\ unwrap(surface_config').device
                 = unwrap(surface_config).device]_vars

\* A Resized to the size the window already had, in Ready.
C14_Witness ==
    /\ ev.type = "Resized" /\ ev.old = ev.size /\ inner_size = ev.size
    /\ Ready /\ Count(ops, "configure") = 1 /\ status = "running"
    /\ ConfigFields(unwrap(surface_config))
           = <<unwrap(render_state).target_format, inner_size[1],
               inner_size[2], "Fifo", "Inherit", 2>>

\* A frame was submitted by the handler that ran last.
FrameSubmitted == ev.type = "RedrawRequested" /\ Count(ops, "submit") = 1

\* C18: every Resume that completes leaves a redraw request pending, and,
\* requested redraws being delivered, it is followed by a submitted frame
\* unless a Suspend, a Close or a panic comes first.
C18_ResumeLeadsToFrame ==
    /\ []((ev.type = "Resumed" /\ status = "running") => redraw_requested)
    /\ (ev.type = "Resumed" /\ status = "running")
           ~> (FrameSubmitted \/ lifecycle = "suspended"
               \/ status # "running")

\* A frame on the surface of a Resume that followed a Suspend, the redraws
\* delivered while suspended having been dropped.
C18_Witness ==
    /\ FrameSubmitted /\ status = "running" /\ lifecycle = "resumed"
    /\ ~redraw_requested
    /\ unwrap(last_frame).surface = handles
    /\ unwrap(render_state).device = handles
    /\ handles > unwrap(adapter).id

====
